---- MODULE Spec2Model ----
(***************************************************************************)
(* Model of src/openstack_cloud/openstack_manager.py: the image build and  *)
(* publish pipeline (build_image) and the instance provisioner             *)
(* (create_instance under the retry decorator).                            *)
(*                                                                         *)
(* Every blocking call to a collaborator (source-hosting client, external  *)
(* build process, cloud control plane) is one atomic step; between two     *)
(* such steps of one call the steps of other calls may run.                *)
(***************************************************************************)
EXTENDS Integers, Sequences, FiniteSets, TLC

VARIABLES
    images,        \* the cloud image catalog: set of [id, name]
    nextImageId,   \* id the cloud gives to the next image it creates
    catalog0,      \* the catalog before any call (history)
    bpc,           \* position of each build_image call
    found,         \* ids returned by the call's search_images
    todo,          \* ids of the search result the loop has not reached yet
    deleted,       \* ids whose delete_image returned True in this call
    berr,          \* the exception that escaped the call
    bresult,       \* id of the image the call returned (0: none)
    nfetch,        \* get_runner_application calls made by the call
    nbuild,        \* execute_command calls made by the call
    ncreate,       \* create_image requests issued by the call
    ndelete,       \* delete_image requests issued by the call
    dlast,         \* what the call's latest delete_image reported
    nconn,         \* cloud connections opened by the call
    nsearch,       \* search_images requests issued by the call
    bat,           \* the step at which the call failed ("": it has not)
    braw,          \* what happened there: the collaborator's exception or report
    barch,         \* the arch argument of the call
    bapp,          \* the runner application the client returned to the call
    bfile,         \* the filename of the call's create_image request
    overlapped,    \* some call started while another was in progress (history)
    servers,       \* the cloud's instances: set of [id, name, flavor, status,
                   \* attempt, token, ssh] (token, ssh: from the boot payload)
    nextServerId,  \* id the cloud gives to the next instance it creates
    cpc,           \* position of the create_instance call
    attempt,       \* invocations of the wrapped function so far
    errs,          \* the exception of every failed attempt, in order
    sleeps,        \* the sleeps of the retry wrapper, in order
    raised,        \* the exception delivered to the caller of create_instance
    cresult,       \* id of the instance create_instance returned (0: none)
    candidates,    \* the ssh_debug_connections argument of the call
    sshInfo,       \* the endpoint rendered into the payload of this attempt
    requests,      \* the create_server requests issued, in order
    configs,       \* the instance configs create_instance_config returned
    nextSuffix,    \* the next value secrets.token_hex gives
    nextToken,     \* the next registration token the client issues
    nconfig,       \* create_instance_config calls made
    ntoken,        \* registration tokens requested from the client
    cmdIn,         \* the arguments of the latest _build_image_command call
    dockerProxy,   \* the "default" dict that call built, as ordered pairs
    cmd,           \* the command that call returned (<<>>: none)
    cmdErr,        \* the exception that escaped that call
    cloudConfig,   \* the profile names of the latest _create_connection call
    connectArg,    \* the profile name given to openstack.connect
    warnings,      \* warnings that call logged
    connErr        \* the exception that escaped that call

bvars == <<images, nextImageId, catalog0, bpc, found, todo, deleted, berr,
           bresult, nfetch, nbuild, ncreate, ndelete, dlast, nconn, nsearch,
           bat, braw, barch, bapp, bfile, overlapped>>
cvars == <<servers, nextServerId, cpc, attempt, errs, sleeps, raised, cresult,
           candidates, sshInfo, requests>>
gvars == <<configs, nextSuffix, nextToken, nconfig, ntoken>>
hvars == <<cmdIn, dockerProxy, cmd, cmdErr, cloudConfig, connectArg, warnings,
           connErr>>
vars == <<bvars, cvars, gvars, hvars>>

----------------------------------------------------------------------------
(* Bounds of the model *)

\* build_image calls made in one behaviour
MaxCalls == 2
\* images the catalog may hold under the canonical name before the first call
MaxInitJammy == 2

Calls == 1..MaxCalls

----------------------------------------------------------------------------
(* Program constants *)

IMAGE_NAME == "jammy"
OTHER_NAME == "focal"

\* an exception: its class, its message and the class of the exception it
\* was raised from ("raise ... from exc")
NoError == [kind |-> "none", msg |-> "", cause |-> ""]
ImageBuildError(m, c) == [kind |-> "ImageBuildError", msg |-> m, cause |-> c]
\* an exception a collaborator raises
Exc(k) == [kind |-> k, msg |-> "", cause |-> ""]

\* exceptions the collaborators raise
GithubExceptions == {"RunnerBinaryError", "OtherError"}
\* the ways the external build can fail, and what execute_command with
\* check_exit=True raises then
CommandFailures == {"nonzero_exit", "spawn_failure"}
CommandException(f) == "SubprocessError"
CommandExceptions == {CommandException(f) : f \in CommandFailures}
CloudExceptions == {"OpenStackCloudException", "Unauthorized"}

\* the arch argument a caller may pass: the two values of charm_state.Arch
ArchArgs == {"x64", "arm64"}
NoApplication == [architecture |-> "", download_url |-> ""]
\* what get_runner_application(path, arch) returns: the application of the
\* requested architecture
RunnerApplication(a) ==
    [architecture |-> a, download_url |-> "http://x/runner-" \o a \o ".tgz"]

\* src 33
IMAGE_PATH_TMPL(architecture) ==
    "jammy-server-cloudimg-" \o architecture \o "-compressed.img"

\* the architecture is put into the file name as it is
ArchBucketIdentity(a) == a

\* src 191
ArchBucket(a) == IF a = "x64" THEN "amd64" ELSE "arm64"

\* src 199: filename=IMAGE_PATH_TMPL.format(architecture=arch)
ImageFile(app) == IMAGE_PATH_TMPL(ArchBucket(app.architecture))

----------------------------------------------------------------------------
(* build_image: the three try/except blocks *)

\* src 179-182
FetchHandler(e) ==
    IF e.kind = "RunnerBinaryError"
    THEN ImageBuildError("Failed to fetch runner application.", e.kind)
    ELSE e

\* the handler is missing: the exception of the build escapes as it is
BuildHandlerNoWrap(e) == e

\* src 184-187
BuildHandler(e) ==
    IF e.kind = "SubprocessError"
    THEN ImageBuildError("Failed to build image.", e.kind)
    ELSE e

\* the handler is missing: the cloud's exception escapes as it is
UploadHandlerNoWrap(e) == e

\* the handler catches every exception
UploadHandlerCatchAll(e) == ImageBuildError("Failed to upload image.", e.kind)

\* src 189-202: only an OpenStackCloudException is caught; every other
\* exception raised inside the try block passes through
UploadHandler(e) ==
    IF e.kind = "OpenStackCloudException"
    THEN ImageBuildError("Failed to upload image.", e.kind)
    ELSE e

\* src 196-197: raised inside the try block of src 189-202
DeleteFailed ==
    ImageBuildError("Failed to delete duplicate image on Openstack.", "")

\* the search asks for the image file's name instead of the canonical name
SearchImagesWrongName(catalog) ==
    {i.id : i \in {j \in catalog : j.name = "jammy-server-cloudimg-amd64-compressed.img"}}

\* the search returns every image of the catalog
SearchImagesAll(catalog) == {i.id : i \in catalog}

\* conn.search_images(name_or_id=IMAGE_NAME): ids are cloud-generated and never
\* equal the canonical name, so the match is by name
SearchImages(catalog) == {i.id : i \in {j \in catalog : j.name = IMAGE_NAME}}

Active(p) == bpc[p] \in {"fetch", "build", "connect", "search", "delete", "create"}

\* the failed call is started over instead of ending
FailAndRetry(p, e) ==
    /\ bpc' = [bpc EXCEPT ![p] = "fetch"]
    /\ berr' = [berr EXCEPT ![p] = e]
    /\ todo' = [todo EXCEPT ![p] = {}]
    /\ bat' = [bat EXCEPT ![p] = bpc[p]]

\* the error is recorded and the call goes on with the publish steps
FailAndPublish(p, e) ==
    /\ bpc' = [bpc EXCEPT ![p] = "connect"]
    /\ berr' = [berr EXCEPT ![p] = e]
    /\ todo' = [todo EXCEPT ![p] = {}]
    /\ bat' = [bat EXCEPT ![p] = bpc[p]]

\* the call ends by raising e
Fail(p, e) ==
    /\ bpc' = [bpc EXCEPT ![p] = "failed"]
    /\ berr' = [berr EXCEPT ![p] = e]
    /\ todo' = [todo EXCEPT ![p] = {}]
    /\ bat' = [bat EXCEPT ![p] = bpc[p]]

\* what the collaborator did when the call failed
Raw(p, r) == braw' = [braw EXCEPT ![p] = r]

----------------------------------------------------------------------------
(* build_image: one action per blocking call *)

bcounters == <<nfetch, nbuild, ncreate, ndelete, dlast, nconn, nsearch>>

NewImage == [id |-> nextImageId, name |-> IMAGE_NAME]
ImageWithId(n) == {i \in images : i.id = n}

\* a caller invokes build_image; calls are numbered in the order they start
StartCall(p) ==
    /\ bpc[p] = "idle"
    /\ (p > 1 => bpc[p - 1] # "idle")
    /\ bpc' = [bpc EXCEPT ![p] = "fetch"]
    /\ \E a \in ArchArgs : barch' = [barch EXCEPT ![p] = a]
    /\ overlapped' = (overlapped \/ \E q \in Calls : Active(q))
    /\ UNCHANGED <<images, nextImageId, catalog0, found, todo, deleted, berr,
                   bresult, bcounters, bat, braw, bapp, bfile, cvars, gvars, hvars>>

\* the caller serializes: no call starts while another is in progress
StartCallSerial(p) ==
    /\ \A q \in Calls : ~Active(q)
    /\ StartCall(p)

\* src 179-182: github_client.get_runner_application
GetRunnerApplication(p) ==
    /\ bpc[p] = "fetch"
    /\ nfetch' = [nfetch EXCEPT ![p] = @ + 1]
    /\ \/ /\ bpc' = [bpc EXCEPT ![p] = "build"]
          /\ bapp' = [bapp EXCEPT ![p] = RunnerApplication(barch[p])]
          /\ UNCHANGED <<berr, todo, bat, braw>>
       \/ /\ \E exc \in GithubExceptions :
                /\ Fail(p, FetchHandler(Exc(exc)))
                /\ Raw(p, exc)
          /\ UNCHANGED bapp
    /\ UNCHANGED <<barch, bfile>>
    /\ UNCHANGED <<images, nextImageId, catalog0, found, deleted, bresult,
                   nbuild, ncreate, ndelete, dlast, nconn, nsearch, overlapped,
                   cvars, gvars, hvars>>

\* src 184-187: execute_command(_build_image_command(...), check_exit=True)
ExecuteCommand(p) ==
    /\ bpc[p] = "build"
    /\ UNCHANGED <<barch, bapp, bfile>>
    /\ nbuild' = [nbuild EXCEPT ![p] = @ + 1]
    /\ \/ /\ bpc' = [bpc EXCEPT ![p] = "connect"]
          /\ UNCHANGED <<berr, todo, bat, braw>>
       \/ \E f \in CommandFailures :
            /\ Fail(p, BuildHandler(Exc(CommandException(f))))
            /\ Raw(p, f)
    /\ UNCHANGED <<images, nextImageId, catalog0, found, deleted, bresult,
                   nfetch, ncreate, ndelete, dlast, nconn, nsearch, overlapped,
                   cvars, gvars, hvars>>

\* src 190: _create_connection(cloud_config)
CreateConnection(p) ==
    /\ bpc[p] = "connect"
    /\ UNCHANGED <<barch, bapp, bfile>>
    /\ nconn' = [nconn EXCEPT ![p] = @ + 1]
    /\ \/ /\ bpc' = [bpc EXCEPT ![p] = "search"]
          /\ UNCHANGED <<berr, todo, bat, braw>>
       \/ \E exc \in CloudExceptions :
            /\ Fail(p, UploadHandler(Exc(exc)))
            /\ Raw(p, exc)
    /\ UNCHANGED <<images, nextImageId, catalog0, found, deleted, bresult,
                   nfetch, nbuild, ncreate, ndelete, dlast, nsearch,
                   overlapped, cvars, gvars, hvars>>

\* src 193: conn.search_images(name_or_id=IMAGE_NAME); the loop runs over
\* the list this one call returned
SearchStep(p) ==
    /\ bpc[p] = "search"
    /\ UNCHANGED <<barch, bapp, bfile>>
    /\ nsearch' = [nsearch EXCEPT ![p] = @ + 1]
    /\ \/ /\ found' = [found EXCEPT ![p] = SearchImages(images)]
          /\ todo' = [todo EXCEPT ![p] = SearchImages(images)]
          /\ bpc' = [bpc EXCEPT ![p] =
                        IF SearchImages(images) = {} THEN "create" ELSE "delete"]
          /\ UNCHANGED <<berr, bat, braw>>
       \/ /\ \E exc \in CloudExceptions :
                /\ Fail(p, UploadHandler(Exc(exc)))
                /\ Raw(p, exc)
          /\ UNCHANGED found
    /\ UNCHANGED <<images, nextImageId, catalog0, deleted, bresult,
                   nfetch, nbuild, ncreate, ndelete, dlast, nconn,
                   overlapped, cvars, gvars, hvars>>

\* the loop is left after its first deletion
LoopNextBreak(p, n) == "create"

\* src 193-198: after the deletion of n the loop goes on with the next image
\* of the search result; create_image follows the last one
LoopNext(p, n) == IF todo[p] = {n} THEN "create" ELSE "delete"

\* src 196-197: conn.delete_image(name_or_id=existing_image.id, wait=True).
\* True: the image is gone. False: it is not deleted (or was not there).
\* An exception may come before or after the cloud removed the image.
DeleteImage(p) ==
    /\ bpc[p] = "delete"
    /\ UNCHANGED <<barch, bapp, bfile>>
    /\ \E n \in todo[p] :
        /\ ndelete' = [ndelete EXCEPT ![p] = @ + 1]
        /\ \/ /\ ImageWithId(n) # {}
              /\ images' = images \ ImageWithId(n)
              /\ deleted' = [deleted EXCEPT ![p] = @ \cup {n}]
              /\ todo' = [todo EXCEPT ![p] = @ \ {n}]
              /\ bpc' = [bpc EXCEPT ![p] = LoopNext(p, n)]
              /\ dlast' = [dlast EXCEPT ![p] = "True"]
              /\ UNCHANGED <<berr, bat, braw>>
           \/ /\ Fail(p, UploadHandler(DeleteFailed))
              /\ Raw(p, "False")
              /\ dlast' = [dlast EXCEPT ![p] = "False"]
              /\ UNCHANGED <<images, deleted>>
           \/ /\ \E exc \in CloudExceptions :
                    /\ Fail(p, UploadHandler(Exc(exc)))
                    /\ Raw(p, exc)
              /\ images' \in {images, images \ ImageWithId(n)}
              /\ dlast' = [dlast EXCEPT ![p] = "raised"]
              /\ UNCHANGED deleted
    /\ UNCHANGED <<nextImageId, catalog0, found, bresult, nfetch, nbuild,
                   ncreate, nconn, nsearch, overlapped, cvars, gvars, hvars>>

\* src 198-200: conn.create_image(name=IMAGE_NAME, filename=..., wait=True).
\* An exception may come after the cloud accepted the image (wait=True).
CreateImage(p) ==
    /\ bpc[p] = "create"
    /\ bfile' = [bfile EXCEPT ![p] = ImageFile(bapp[p])]
    /\ UNCHANGED <<barch, bapp>>
    /\ ncreate' = [ncreate EXCEPT ![p] = @ + 1]
    /\ \/ /\ images' = images \cup {NewImage}
          /\ nextImageId' = nextImageId + 1
          /\ bresult' = [bresult EXCEPT ![p] = nextImageId]
          /\ bpc' = [bpc EXCEPT ![p] = "done"]
          /\ UNCHANGED <<berr, todo, bat, braw>>
       \/ /\ \E exc \in CloudExceptions :
                /\ Fail(p, UploadHandler(Exc(exc)))
                /\ Raw(p, exc)
          /\ \/ UNCHANGED <<images, nextImageId>>
             \/ /\ images' = images \cup {NewImage}
                /\ nextImageId' = nextImageId + 1
          /\ UNCHANGED bresult
    /\ UNCHANGED <<catalog0, found, deleted, nfetch, nbuild, ndelete, dlast,
                   nconn, nsearch, overlapped, cvars, gvars, hvars>>

BuildStep(p) ==
    \/ GetRunnerApplication(p)
    \/ ExecuteCommand(p)
    \/ CreateConnection(p)
    \/ SearchStep(p)
    \/ DeleteImage(p)
    \/ CreateImage(p)

\* the catalog before any call: n images under the canonical name and one
\* image under another name
InitCatalog(n) ==
    {[id |-> k, name |-> IMAGE_NAME] : k \in 1..n}
        \cup {[id |-> n + 1, name |-> OTHER_NAME]}

----------------------------------------------------------------------------
(* The retry decorator: @retry(tries=5, delay=5, max_delay=60, backoff=2) *)

\* one attempt too few
tries_off_by_one == 5 - 1

\* two attempts too many
tries_seven == 5 + 2

tries == 5
delay == 5
max_delay == 60
\* the delay is never multiplied
backoff_none == 2 - 1

backoff == 2

Min(a, b) == IF a <= b THEN a ELSE b

\* the sleep that follows failed attempt n
RetryDelay(n) == Min(delay * backoff ^ (n - 1), max_delay)

\* whether the wrapper gives up after n failed attempts
Exhausted(n) == n >= tries

----------------------------------------------------------------------------
(* create_instance *)

\* the instance config of the call: the name carries a random suffix
ConfigName == "runner-0-4f9a"
ConfigToken == "token-1"
FLAVOR == "m1.small"

TemplateExceptions == {"TemplateError"}

InstanceLaunchError(n, c) ==
    [kind |-> "InstanceLaunchError", msg |-> "Failed to launch instance.",
     cause |-> c, at |-> n]
\* an exception a collaborator raises in attempt n
ExcAt(k, n) == [kind |-> k, msg |-> "", cause |-> "", at |-> n]
NoErrorAt == [kind |-> "none", msg |-> "", cause |-> "", at |-> 0]

\* the handler is missing: the cloud's exception escapes as it is
LaunchHandlerNoWrap(e) == e

\* src 270-280: the try/except around the connection and create_server
LaunchHandler(e) ==
    IF e.kind = "OpenStackCloudException"
    THEN InstanceLaunchError(e.at, e.kind)
    ELSE e

\* the ssh_debug_connections a caller may pass: none, one or two endpoints
SshInputs == {<<>>, <<"ssh-a">>, <<"ssh-a", "ssh-b">>}

\* no endpoint may be the outcome whatever the candidates are
SshChoicesOrNone(c) == {"none"} \cup {c[i] : i \in 1..Len(c)}

\* src 260: secrets.choice(ssh_debug_connections) if ssh_debug_connections
\* else None
SshChoices(c) == IF c = <<>> THEN {"none"} ELSE {c[i] : i \in 1..Len(c)}

\* the instance a create_server request of this attempt makes
NewServer(st) ==
    [id |-> nextServerId, name |-> ConfigName, flavor |-> FLAVOR,
     status |-> st, attempt |-> attempt, token |-> ConfigToken,
     ssh |-> sshInfo]

\* src 272-278: the create_server request of this attempt
NewRequest ==
    [attempt |-> attempt, name |-> ConfigName, token |-> ConfigToken,
     ssh |-> sshInfo]

\* the handle of an earlier request is returned
ReturnedStale == nextServerId - 1

\* src 272: what create_instance returns is what create_server returned
ReturnedServer == nextServerId

Named(nm) == {s \in servers : s.name = nm}

\* the wrapped function raised e: the wrapper re-raises it when the attempts
\* are exhausted and sleeps before the next attempt otherwise
AttemptRaises(e) ==
    /\ errs' = Append(errs, e)
    /\ IF Exhausted(attempt)
       THEN /\ raised' = e
            /\ cpc' = "raised"
       ELSE /\ cpc' = "sleep"
            /\ UNCHANGED raised

\* a caller invokes create_instance: the wrapper makes the first attempt
CallCreateInstance ==
    /\ cpc = "idle"
    /\ cpc' = "render"
    /\ attempt' = 1
    /\ candidates' \in SshInputs
    /\ UNCHANGED <<bvars, gvars, hvars, servers, nextServerId, errs, sleeps, raised, cresult,
                   sshInfo, requests>>

\* src 255-268: the two template renderings; nothing catches their errors
RenderUserdata ==
    /\ cpc = "render"
    /\ \/ /\ cpc' = "connect"
          /\ sshInfo' \in SshChoices(candidates)
          /\ UNCHANGED <<errs, raised>>
       \/ /\ \E exc \in TemplateExceptions : AttemptRaises(ExcAt(exc, attempt))
          /\ UNCHANGED sshInfo
    /\ UNCHANGED <<bvars, gvars, hvars, servers, nextServerId, attempt, sleeps, cresult,
                   candidates, requests>>

\* src 271: _create_connection(cloud_config)
ConnectForInstance ==
    /\ cpc = "connect"
    /\ \/ /\ cpc' = "create"
          /\ UNCHANGED <<errs, raised>>
       \/ \E exc \in CloudExceptions : AttemptRaises(LaunchHandler(ExcAt(exc, attempt)))
    /\ UNCHANGED <<bvars, gvars, hvars, servers, nextServerId, attempt, sleeps, cresult,
                   candidates, sshInfo, requests>>

\* src 272-278: conn.create_server(name=..., wait=True). An exception may come
\* after the cloud accepted the request: the instance exists and never became
\* usable. The cloud does not refuse a name that is in use.
CreateServer ==
    /\ cpc = "create"
    /\ requests' = Append(requests, NewRequest)
    /\ \/ /\ servers' = servers \cup {NewServer("ACTIVE")}
          /\ nextServerId' = nextServerId + 1
          /\ cresult' = ReturnedServer
          /\ cpc' = "returned"
          /\ UNCHANGED <<errs, raised>>
       \/ /\ \E exc \in CloudExceptions : AttemptRaises(LaunchHandler(ExcAt(exc, attempt)))
          /\ \/ UNCHANGED <<servers, nextServerId>>
             \/ /\ servers' = servers \cup {NewServer("ERROR")}
                /\ nextServerId' = nextServerId + 1
          /\ UNCHANGED cresult
    /\ UNCHANGED <<bvars, gvars, hvars, attempt, sleeps, candidates, sshInfo>>

\* the wrapper sleeps and invokes the wrapped function again
SleepAndRetry ==
    /\ cpc = "sleep"
    /\ sleeps' = Append(sleeps, RetryDelay(attempt))
    /\ attempt' = attempt + 1
    /\ cpc' = "render"
    /\ UNCHANGED <<bvars, gvars, hvars, servers, nextServerId, errs, raised, cresult,
                   candidates, sshInfo, requests>>

----------------------------------------------------------------------------
(* create_instance_config *)

\* create_instance_config calls made in one behaviour
MaxConfigs == 2

\* the arguments a caller may pass
UnitNames == {"runner/0", "runner/1"}
GithubPaths == {"org", "org/repo"}
ImageArgs == {"image-1", "image-2"}

\* src 219: unit_name.rsplit("/", 1)
RSplit(u) ==
    CASE u = "runner/0" -> <<"runner", "0">>
      [] u = "runner/1" -> <<"runner", "1">>

\* the random suffix is left out of the name
InstanceNameNoSuffix(app, num, suffix) == <<app, "-", num>>

\* src 223: f"{app_name}-{unit_num}-{suffix}"
InstanceName(app, num, suffix) == <<app, "-", num, "-", suffix>>

\* src 222-228
InstanceConfig(unit, image, path, suffix, token) ==
    [name |-> InstanceName(RSplit(unit)[1], RSplit(unit)[2], suffix),
     labels |-> <<RSplit(unit)[1], "jammy">>,
     registration_token |-> token,
     github_path |-> path,
     openstack_image |-> image,
     unit |-> unit]

\* src 205-228. secrets.token_hex(12) gives 96 random bits, taken as a value
\* never drawn before; the client issues a new token on every request, and
\* its exception escapes the call.
CreateInstanceConfig ==
    /\ nconfig < MaxConfigs
    /\ nconfig' = nconfig + 1
    /\ nextSuffix' = nextSuffix + 1
    /\ ntoken' = ntoken + 1
    /\ \E unit \in UnitNames : \E image \in ImageArgs : \E path \in GithubPaths :
        \/ /\ nextToken' = nextToken + 1
           /\ configs' = Append(configs,
                  InstanceConfig(unit, image, path, nextSuffix, nextToken))
        \/ UNCHANGED <<nextToken, configs>>
    /\ UNCHANGED <<bvars, cvars, hvars>>

----------------------------------------------------------------------------
(* _build_image_command *)

BUILD_OPENSTACK_IMAGE_SCRIPT_FILENAME == "scripts/build-openstack-image.sh"

\* Python's None, for a field that is absent
None == "<None>"
\* Python's None, for the proxies argument
NoProxies == [is_none |-> TRUE]

\* the proxies argument: None, or a ProxyConfig whose fields are each absent,
\* empty or set; a ProxyConfig is a plain triple and counts as true
ProxyConfigs ==
    [http : {None, "", "http://proxy:3128"},
     https : {None, "", "https://proxy:3129"},
     no_proxy : {None, "", "localhost"}]
ProxyInputs == {NoProxies} \cup ProxyConfigs

NoCommandInput == [runner_info |-> NoApplication, proxies |-> NoProxies]

\* Python truth of an Optional[str]
Truthy(v) == v \notin {None, ""}

\* src 102-104: proxies.f if (proxies and proxies.f) else ""
ProxyField(proxies, f) ==
    IF proxies # NoProxies /\ Truthy(proxies[f]) THEN proxies[f] ELSE ""

\* every pair is kept
KeepAll(pairs) == pairs

\* src 113-119: {key: value for key, value in (...) if value}
KeepNonEmpty(pairs) == SelectSeq(pairs, LAMBDA kv : kv[2] # "")

\* src 110-122: the "default" dict
DockerProxyDefault(proxies) ==
    KeepNonEmpty(<<<<"httpProxy", ProxyField(proxies, "http")>>,
                   <<"httpsProxy", ProxyField(proxies, "https")>>,
                   <<"noProxy", ProxyField(proxies, "no_proxy")>>>>)

\* json.dumps of a dict of strings: "key": "value" items joined by ", "
RECURSIVE JsonItems(_)
JsonItems(pairs) ==
    IF pairs = <<>> THEN ""
    ELSE "\"" \o pairs[1][1] \o "\": \"" \o pairs[1][2] \o "\""
         \o (IF Len(pairs) = 1 THEN "" ELSE ", " \o JsonItems(Tail(pairs)))

\* src 123: json.dumps({"proxies": {"default": {...}}})
JsonDumps(default) ==
    "{\"proxies\": {\"default\": {" \o JsonItems(default) \o "}}}"

\* src 107-109: the systemd-docker-proxy.j2 template rendered with proxies
RenderProxyService(proxies) == <<"systemd-docker-proxy.j2", proxies>>

\* the proxy arguments are passed before the download URL
CommandUrlLast(runner_info, proxies) ==
    <<"/usr/bin/bash", BUILD_OPENSTACK_IMAGE_SCRIPT_FILENAME,
      ProxyField(proxies, "http"),
      ProxyField(proxies, "https"),
      ProxyField(proxies, "no_proxy"),
      runner_info.download_url,
      RenderProxyService(proxies),
      JsonDumps(DockerProxyDefault(proxies))>>

\* src 125-134
Command(runner_info, proxies) ==
    <<"/usr/bin/bash", BUILD_OPENSTACK_IMAGE_SCRIPT_FILENAME,
      runner_info.download_url,
      ProxyField(proxies, "http"),
      ProxyField(proxies, "https"),
      ProxyField(proxies, "no_proxy"),
      RenderProxyService(proxies),
      JsonDumps(DockerProxyDefault(proxies))>>

\* src 94-136: one call; the template rendering may raise
BuildImageCommand ==
    /\ \E a \in ArchArgs : \E proxies \in ProxyInputs :
        /\ cmdIn' = [runner_info |-> RunnerApplication(a), proxies |-> proxies]
        /\ \/ /\ dockerProxy' = DockerProxyDefault(proxies)
              /\ cmd' = Command(RunnerApplication(a), proxies)
              /\ cmdErr' = ""
           \/ /\ \E exc \in TemplateExceptions : cmdErr' = exc
              /\ dockerProxy' = <<>>
              /\ cmd' = <<>>
    /\ UNCHANGED <<bvars, cvars, gvars, cloudConfig, connectArg, warnings, connErr>>

----------------------------------------------------------------------------
(* _create_connection *)

ProfileNames == {"prod", "staging", "dev"}

\* cloud_config["clouds"]: one or more named profiles, in the order listed
CloudConfigs ==
    {c \in UNION {[1..n -> ProfileNames] : n \in 1..3} :
        \A i \in 1..Len(c) : \A j \in 1..Len(c) : i # j => c[i] # c[j]}

\* the last-listed profile is used
LastListed(clouds) == clouds[Len(clouds)]

\* src 57: clouds[0]
FirstListed(clouds) == clouds[1]

\* src 54-61: one call; openstack.connect may raise
CreateConnectionCall ==
    /\ \E c \in CloudConfigs :
        /\ cloudConfig' = c
        /\ warnings' = IF Len(c) > 1 THEN 1 ELSE 0
        /\ connectArg' = FirstListed(c)
    /\ \/ connErr' = ""
       \/ \E exc \in CloudExceptions : connErr' = exc
    /\ UNCHANGED <<bvars, cvars, gvars, cmdIn, dockerProxy, cmd, cmdErr>>

Init ==
    /\ \E n \in 0..MaxInitJammy :
        /\ images = InitCatalog(n)
        /\ catalog0 = InitCatalog(n)
        /\ nextImageId = n + 2
    /\ bpc = [p \in Calls |-> "idle"]
    /\ found = [p \in Calls |-> {}]
    /\ todo = [p \in Calls |-> {}]
    /\ deleted = [p \in Calls |-> {}]
    /\ berr = [p \in Calls |-> NoError]
    /\ bresult = [p \in Calls |-> 0]
    /\ nfetch = [p \in Calls |-> 0]
    /\ nbuild = [p \in Calls |-> 0]
    /\ ncreate = [p \in Calls |-> 0]
    /\ ndelete = [p \in Calls |-> 0]
    /\ dlast = [p \in Calls |-> "none"]
    /\ nconn = [p \in Calls |-> 0]
    /\ nsearch = [p \in Calls |-> 0]
    /\ bat = [p \in Calls |-> ""]
    /\ braw = [p \in Calls |-> ""]
    /\ barch = [p \in Calls |-> ""]
    /\ bapp = [p \in Calls |-> NoApplication]
    /\ bfile = [p \in Calls |-> ""]
    /\ overlapped = FALSE
    /\ servers = {}
    /\ nextServerId = 1
    /\ cpc = "idle"
    /\ attempt = 0
    /\ errs = <<>>
    /\ sleeps = <<>>
    /\ raised = NoErrorAt
    /\ cresult = 0
    /\ candidates = <<>>
    /\ sshInfo = "none"
    /\ requests = <<>>
    /\ configs = <<>>
    /\ nextSuffix = 1
    /\ nextToken = 1
    /\ nconfig = 0
    /\ ntoken = 0
    /\ cmdIn = NoCommandInput
    /\ dockerProxy = <<>>
    /\ cmd = <<>>
    /\ cmdErr = ""
    /\ cloudConfig = <<>>
    /\ connectArg = ""
    /\ warnings = 0
    /\ connErr = ""

NextSerial == \E p \in Calls : StartCallSerial(p) \/ BuildStep(p)
NextConc == \E p \in Calls : StartCall(p) \/ BuildStep(p)
NextInstance ==
    \/ CallCreateInstance
    \/ RenderUserdata
    \/ ConnectForInstance
    \/ CreateServer
    \/ SleepAndRetry
NextConfig == CreateInstanceConfig
NextCommand == BuildImageCommand
NextConnection == CreateConnectionCall
Next == NextConc \/ NextInstance \/ NextConfig \/ NextCommand \/ NextConnection

\* build_image calls made one after the other
SpecSerial == Init /\ [][NextSerial]_vars
\* build_image calls that may overlap
SpecConc == Init /\ [][NextConc]_vars
\* one create_instance call under the retry decorator
SpecInstance == Init /\ [][NextInstance]_vars
\* create_instance does not read the image catalog: one catalog is enough
InitInstance == Init /\ images = InitCatalog(0)

\* one create_instance call in which every blocking call returns and every
\* sleep ends
SpecInstanceFair ==
    /\ InitInstance
    /\ [][NextInstance]_vars
    /\ WF_vars(RenderUserdata)
    /\ WF_vars(ConnectForInstance)
    /\ WF_vars(CreateServer)
    /\ WF_vars(SleepAndRetry)
\* create_instance_config calls
SpecConfig == Init /\ [][NextConfig]_vars
\* _build_image_command calls
SpecCommand == Init /\ [][NextCommand]_vars
\* _create_connection calls
SpecConnection == Init /\ [][NextConnection]_vars
\* everything together
Spec == Init /\ [][Next]_vars

----------------------------------------------------------------------------
(* Properties of build_image *)

JammyIds(catalog) == {i.id : i \in {j \in catalog : j.name = "jammy"}}
CleanStart == JammyIds(catalog0) = {}
LatestCall(p) == p < MaxCalls => bpc[p + 1] = "idle"

\* C1: from a catalog with no "jammy" image and with the calls made one after
\* the other, a call that succeeded leaves exactly one "jammy" image, the one
\* it created (until the next call starts), and a call that reaches its create
\* request after a successful call has deleted that call's image.
C1_SerialReplace ==
    CleanStart =>
        \A p \in Calls :
            /\ (bpc[p] = "done" /\ LatestCall(p)) =>
                   JammyIds(images) = {bresult[p]}
            /\ (p > 1 /\ ncreate[p] > 0 /\ bpc[p - 1] = "done") =>
                   /\ bresult[p - 1] \in deleted[p]
                   /\ bresult[p - 1] # bresult[p]

C1_Witness ==
    /\ CleanStart
    /\ bpc[1] = "done"
    /\ bpc[2] = "done"
    /\ bresult[1] \in deleted[2]
    /\ JammyIds(images) = {bresult[2]}

\* C2: a call issues its create request only when every image its search
\* returned has been deleted with success, one request each; once the create
\* request is issued the call deletes nothing more.
C2_DeleteBeforeCreate ==
    /\ [](\A p \in Calls :
            (ncreate[p] > 0 \/ bpc[p] = "create") =>
                /\ found[p] = deleted[p]
                /\ ndelete[p] = Cardinality(found[p])
                /\ todo[p] = {})
    /\ [][\A p \in Calls :
            ncreate[p] > 0 =>
                /\ ndelete'[p] = ndelete[p]
                /\ deleted'[p] = deleted[p]]_vars

C2_Witness ==
    \E p \in Calls :
        /\ ncreate[p] = 1
        /\ Cardinality(found[p]) = 2
        /\ overlapped

\* C3: when a delete_image reports failure the call ends with
\* ImageBuildError("Failed to delete duplicate image on Openstack."), and it
\* issues no further delete request and no create request.
C3_DeleteFailureAborts ==
    /\ [](\A p \in Calls :
            dlast[p] = "False" =>
                /\ bpc[p] = "failed"
                /\ berr[p].kind = "ImageBuildError"
                /\ berr[p].msg = "Failed to delete duplicate image on Openstack."
                /\ ncreate[p] = 0
                /\ bresult[p] = 0)
    /\ [][\A p \in Calls :
            dlast[p] = "False" =>
                /\ ndelete'[p] = ndelete[p]
                /\ ncreate'[p] = ncreate[p]
                /\ dlast'[p] = dlast[p]]_vars

C3_Witness ==
    \E p \in Calls :
        /\ dlast[p] = "False"
        /\ ndelete[p] = 1
        /\ Cardinality(found[p]) = 2

\* C4: calls that overlap can both succeed and leave two "jammy" images; as
\* long as no call has started while another was in progress, a catalog that
\* was clean at the start never holds more than one.
C4_OneImageWhenSerialized ==
    (CleanStart /\ ~overlapped) => Cardinality(JammyIds(images)) <= 1

C4_Witness ==
    /\ CleanStart
    /\ overlapped
    /\ bpc[1] = "done"
    /\ bpc[2] = "done"
    /\ JammyIds(images) = {bresult[1], bresult[2]}
    /\ bresult[1] # bresult[2]

----------------------------------------------------------------------------
(* Properties of create_instance under the retry decorator *)

C6_ReturnsAttemptK ==
    /\ [](cpc = "returned" =>
            /\ attempt \in 1..5
            /\ Len(errs) = attempt - 1
            /\ Len(sleeps) = attempt - 1
            /\ \E s \in servers :
                /\ s.id = cresult
                /\ s.attempt = attempt
                /\ s.status = "ACTIVE"
                /\ s.name = ConfigName)
    /\ [][cpc = "returned" =>
            /\ attempt' = attempt
            /\ sleeps' = sleeps
            /\ servers' = servers
            /\ cresult' = cresult]_vars

C6_Witness ==
    /\ cpc = "returned"
    /\ attempt = 3
    /\ Len(errs) = 2

DelayTable == <<5, 10, 20, 40>>

\* C7: the sleep after failed attempt n (n = 1..4) is 5, 10, 20, 40 seconds:
\* non-decreasing, never above 60, and no sleep follows the 5th failed attempt.
C7_Delays ==
    /\ Len(sleeps) <= 4
    /\ \A n \in 1..Len(sleeps) :
        /\ sleeps[n] = DelayTable[n]
        /\ sleeps[n] <= 60
        /\ n > 1 => sleeps[n - 1] <= sleeps[n]
    /\ cpc = "sleep" => Len(sleeps) = Len(errs) - 1
    /\ cpc \in {"render", "connect", "create", "returned"} => Len(sleeps) = Len(errs)
    /\ cpc = "raised" => (Len(sleeps) = 4 /\ Len(errs) = 5)

C7_Witness ==
    /\ cpc = "raised"
    /\ sleeps = <<5, 10, 20, 40>>

\* C8: when the attempts are exhausted the caller gets the very exception of
\* the last attempt, not one of an earlier attempt, and a call whose 5
\* attempts failed never returns normally.
C8_LastErrorReraised ==
    /\ cpc = "raised" =>
        /\ Len(errs) = 5
        /\ raised = errs[5]
        /\ raised.at = 5
        /\ \A i \in 1..4 : errs[i] # raised
    /\ Len(errs) = 5 =>
        /\ cpc = "raised"
        /\ raised.kind # "none"
        /\ cresult = 0

C8_Witness ==
    /\ cpc = "raised"
    /\ errs[4].kind = "InstanceLaunchError"
    /\ errs[5].kind = "Unauthorized"
    /\ raised.kind = "Unauthorized"

\* C9 as stated: when create_instance ends with InstanceLaunchError no
\* instance with the config's name exists in the cloud.
C9_Original ==
    (cpc = "raised" /\ raised.kind = "InstanceLaunchError") =>
        Named(ConfigName) = {}

\* C10 as stated: when create_instance returns after one or more failed
\* attempts, exactly one instance with the config's name exists in the cloud.
C10_Original ==
    (cpc = "returned" /\ Len(errs) >= 1) =>
        Cardinality(Named(ConfigName)) = 1

----------------------------------------------------------------------------
(* Errors and repetition in build_image *)

DomainErrors == {"ImageBuildError", "InstanceLaunchError", "OpenStackUnauthorizedError"}
PublishSteps == {"connect", "search", "delete", "create"}
NoCloudCall(p) ==
    /\ nconn[p] = 0
    /\ nsearch[p] = 0
    /\ ndelete[p] = 0
    /\ ncreate[p] = 0

\* C13 as stated: every exception that escapes build_image is an
\* ImageBuildError and every exception that escapes create_instance is an
\* InstanceLaunchError (or the domain's unauthorized error); no exception of a
\* lower level reaches the caller.
C13_Original ==
    /\ \A p \in Calls :
        bpc[p] = "failed" =>
            berr[p].kind \in {"ImageBuildError", "OpenStackUnauthorizedError"}
    /\ cpc = "raised" =>
        raised.kind \in {"InstanceLaunchError", "OpenStackUnauthorizedError"}

\* C14 as stated: whatever failure the source-hosting client reports while
\* the runner application is resolved, the call ends with
\* ImageBuildError("Failed to fetch runner application."), after one fetch,
\* without running the build or calling the cloud.
C14_Original ==
    \A p \in Calls :
        bat[p] = "fetch" =>
            /\ berr[p].kind = "ImageBuildError"
            /\ berr[p].msg = "Failed to fetch runner application."
            /\ nfetch[p] = 1
            /\ nbuild[p] = 0
            /\ NoCloudCall(p)

C16_UploadFailure ==
    \A p \in Calls :
        bat[p] \in PublishSteps =>
            /\ berr[p].kind # "OpenStackCloudException"
            /\ braw[p] = "OpenStackCloudException" =>
                /\ berr[p].kind = "ImageBuildError"
                /\ berr[p].msg = "Failed to upload image."
                /\ berr[p].cause = "OpenStackCloudException"
            /\ braw[p] = "False" =>
                /\ bat[p] = "delete"
                /\ berr[p].kind = "ImageBuildError"
                /\ berr[p].msg = "Failed to delete duplicate image on Openstack."
            /\ berr[p].msg = "Failed to upload image." =>
                braw[p] = "OpenStackCloudException"

C16_Witness ==
    /\ bat[1] = "delete"
    /\ braw[1] = "OpenStackCloudException"
    /\ berr[1].msg = "Failed to upload image."
    /\ bat[2] = "delete"
    /\ braw[2] = "False"

\* C18: one call fetches the runner application, runs the build, opens the
\* connection and issues the create request at most once each, whatever
\* fails; a call that succeeds did each exactly once, and from a clean catalog
\* a call that ran alone leaves exactly one image.
C18_NoInternalRetry ==
    /\ \A p \in Calls :
        /\ nfetch[p] <= 1
        /\ nbuild[p] <= 1
        /\ nconn[p] <= 1
        /\ nsearch[p] <= 1
        /\ ncreate[p] <= 1
        /\ bpc[p] = "done" =>
            /\ nfetch[p] = 1
            /\ nbuild[p] = 1
            /\ ncreate[p] = 1
            /\ bresult[p] # 0
    /\ (CleanStart /\ bpc[1] = "done" /\ LatestCall(1)) =>
        Cardinality(JammyIds(images)) = 1

C18_Witness ==
    /\ CleanStart
    /\ bpc[1] = "done"
    /\ LatestCall(1)
    /\ nbuild[1] = 1
    /\ ncreate[1] = 1

\* C19: whatever number of "jammy" images the catalog holds when a call that
\* runs alone starts, a call that succeeds has deleted every one of them by
\* id and leaves exactly one, its own.
C19_CleansDuplicates ==
    \A p \in Calls :
        (bpc[p] = "done" /\ LatestCall(p)) =>
            /\ JammyIds(images) = {bresult[p]}
            /\ deleted[p] = found[p]
            /\ deleted[p] \cap JammyIds(images) = {}
            /\ p = 1 => deleted[p] = JammyIds(catalog0)

C19_Witness ==
    /\ Cardinality(JammyIds(catalog0)) = 2
    /\ bpc[1] = "done"
    /\ deleted[1] = JammyIds(catalog0)
    /\ JammyIds(images) = {bresult[1]}

----------------------------------------------------------------------------
(* Per-instance values of create_instance *)

\* C11 as stated: no two instances in the cloud were created with the same
\* registration token, retried attempts included.
C11_Original ==
    \A s1 \in servers : \A s2 \in servers :
        s1.id # s2.id => s1.token # s2.token

\* C12 as stated: every create_server request one create_instance call
\* submits, re-attempts included, carries the same SSH debug endpoint.
C12_Original ==
    \A i \in 1..Len(requests) : \A j \in 1..Len(requests) :
        requests[i].ssh = requests[j].ssh

\* C17 as stated: a credential rejection ends the call at once, in its first
\* attempt for create_instance, with the domain's unauthorized error.
C17_Original ==
    /\ \A i \in 1..Len(errs) :
        errs[i].kind = "Unauthorized" =>
            /\ cpc = "raised"
            /\ attempt = i
            /\ Len(errs) = i
    /\ cpc = "raised" => raised.kind # "Unauthorized"
    /\ \A p \in Calls :
        braw[p] = "Unauthorized" => berr[p].kind = "OpenStackUnauthorizedError"

----------------------------------------------------------------------------
(* create_instance_config *)

\* C20: two create_instance_config calls, also with the same unit name,
\* return configs with different names and different registration tokens;
\* every call requests exactly one token from the client and uses neither a
\* token nor a name an earlier call returned.
C20_FreshNameAndToken ==
    /\ ntoken = nconfig
    /\ Len(configs) <= nconfig
    /\ \A i \in 1..Len(configs) : \A j \in 1..Len(configs) :
        i < j =>
            /\ configs[i].name # configs[j].name
            /\ configs[i].registration_token # configs[j].registration_token

C20_Witness ==
    /\ Len(configs) = 2
    /\ configs[1].unit = configs[2].unit
    /\ configs[1].name # configs[2].name
    /\ ntoken = 2

----------------------------------------------------------------------------
(* The image file build_image uploads *)

\* C21: the file name of the create_image request is the amd64 name when the
\* requested architecture is "x64" and the arm64 name for every other
\* architecture; no third file name is ever used.
C21_ArchMapping ==
    \A p \in Calls :
        ncreate[p] > 0 =>
            /\ barch[p] = "x64" =>
                   bfile[p] = "jammy-server-cloudimg-amd64-compressed.img"
            /\ barch[p] # "x64" =>
                   bfile[p] = "jammy-server-cloudimg-arm64-compressed.img"
            /\ bfile[p] \in {"jammy-server-cloudimg-amd64-compressed.img",
                             "jammy-server-cloudimg-arm64-compressed.img"}

C21_Witness ==
    /\ barch[1] = "x64"
    /\ bfile[1] = "jammy-server-cloudimg-amd64-compressed.img"
    /\ barch[2] = "arm64"
    /\ bfile[2] = "jammy-server-cloudimg-arm64-compressed.img"
    /\ bpc[1] = "done"
    /\ bpc[2] = "done"

----------------------------------------------------------------------------
(* The command of the external build *)

\* the value the caller configured for a proxy field (None: not configured)
Configured(f) ==
    IF cmdIn.proxies = NoProxies THEN None ELSE cmdIn.proxies[f]
ProxyKeyField == [httpProxy |-> "http", httpsProxy |-> "https", noProxy |-> "no_proxy"]
ProxyKeys == {"httpProxy", "httpsProxy", "noProxy"}
DockerProxyKeys == {dockerProxy[i][1] : i \in 1..Len(dockerProxy)}

\* C22: for every proxy configuration, absent or with any of its fields
\* missing or empty, the "default" object of the proxy JSON given to the build
\* holds exactly the keys among httpProxy, httpsProxy and noProxy whose value
\* is non-empty, each once and with that value.
C22_ProxyJson ==
    cmd # <<>> =>
        /\ DockerProxyKeys =
               {k \in ProxyKeys : Configured(ProxyKeyField[k]) \notin {None, ""}}
        /\ Len(dockerProxy) = Cardinality(DockerProxyKeys)
        /\ \A i \in 1..Len(dockerProxy) :
               dockerProxy[i][2] = Configured(ProxyKeyField[dockerProxy[i][1]])
        /\ cmd[8] = JsonDumps(dockerProxy)

C22_Witness ==
    /\ cmdIn.proxies = [http |-> "http://proxy:3128", https |-> "", no_proxy |-> "localhost"]
    /\ dockerProxy = <<<<"httpProxy", "http://proxy:3128">>, <<"noProxy", "localhost">>>>
    /\ cmd[8] = "{\"proxies\": {\"default\": {\"httpProxy\": \"http://proxy:3128\", \"noProxy\": \"localhost\"}}}"

\* the argument the build gets for a proxy field
ExpectedArg(f) == IF Configured(f) \in {None, ""} THEN "" ELSE Configured(f)

\* C24: the build script is given, in this order, the download URL, the http
\* proxy, the https proxy, the no-proxy list, the rendered proxy-service
\* configuration and the proxy JSON; a proxy argument is the empty string
\* when the proxy configuration is absent or the field is missing or empty.
C24_CommandArguments ==
    cmd # <<>> =>
        /\ Len(cmd) = 8
        /\ cmd[1] = "/usr/bin/bash"
        /\ cmd[2] = "scripts/build-openstack-image.sh"
        /\ cmd[3] = cmdIn.runner_info.download_url
        /\ cmd[4] = ExpectedArg("http")
        /\ cmd[5] = ExpectedArg("https")
        /\ cmd[6] = ExpectedArg("no_proxy")
        /\ cmd[7] = <<"systemd-docker-proxy.j2", cmdIn.proxies>>
        /\ cmd[8] = JsonDumps(dockerProxy)

C24_Witness ==
    /\ cmdIn.proxies = [http |-> None, https |-> "https://proxy:3129", no_proxy |-> ""]
    /\ cmdIn.runner_info.architecture = "x64"
    /\ cmd[3] = "http://x/runner-x64.tgz"
    /\ cmd[4] = ""
    /\ cmd[5] = "https://proxy:3129"
    /\ cmd[6] = ""
    /\ cmd[8] = "{\"proxies\": {\"default\": {\"httpsProxy\": \"https://proxy:3129\"}}}"

----------------------------------------------------------------------------
(* The cloud profile of a connection *)

\* C25: whatever profiles the configuration lists, one or several, the
\* connection is opened with the first-listed one and with no other; several
\* profiles make the call log one warning and nothing else.
C25_FirstProfile ==
    cloudConfig # <<>> =>
        /\ connectArg = cloudConfig[1]
        /\ \A i \in 2..Len(cloudConfig) : connectArg # cloudConfig[i]
        /\ warnings = (IF Len(cloudConfig) > 1 THEN 1 ELSE 0)
        /\ connErr \in {""} \cup CloudExceptions

C25_Witness ==
    /\ Len(cloudConfig) = 3
    /\ connectArg = cloudConfig[1]
    /\ warnings = 1
    /\ connErr = ""

----------------------------------------------------------------------------
(* The SSH debug endpoint of one attempt *)

\* e is a correct selection from the candidates of the call
SelectedFrom(e) ==
    /\ Len(candidates) = 0 => e = "none"
    /\ Len(candidates) = 1 => e = candidates[1]
    /\ Len(candidates) > 1 => \E i \in 1..Len(candidates) : e = candidates[i]

\* C23: the endpoint an attempt renders into the environment descriptor, and
\* sends with its create_server request, is no endpoint when the candidate
\* list is empty or absent, the candidate when there is exactly one, and a
\* member of the list when there are several.
C23_SshSelection ==
    /\ cpc \in {"connect", "create", "returned"} => SelectedFrom(sshInfo)
    /\ \A i \in 1..Len(requests) : SelectedFrom(requests[i].ssh)

\* with two candidates each of them is a possible outcome
C23_Witness ==
    /\ Len(candidates) = 2
    /\ \E i \in 1..Len(requests) : requests[i].ssh = candidates[1]
    /\ \E j \in 1..Len(requests) : requests[j].ssh = candidates[2]

----------------------------------------------------------------------------
(* Template failures and termination of create_instance *)

\* C26 as stated: a template rendering failure in create_instance reaches
\* the caller as it is, at once: the attempt that met it is the last one, no
\* sleep and no further rendering follow, and that attempt opens no connection
\* and issues no create_server request.
C26_Original ==
    \A i \in 1..Len(errs) :
        errs[i].kind = "TemplateError" =>
            /\ cpc = "raised"
            /\ raised = errs[i]
            /\ Len(errs) = i
            /\ attempt = i
            /\ \A j \in 1..Len(requests) : requests[j].attempt # i

RECURSIVE SumSeq(_)
SumSeq(q) == IF q = <<>> THEN 0 ELSE Head(q) + SumSeq(Tail(q))

\* C27: when every blocking call returns, a create_instance call that was
\* started ends, by returning an instance or by raising; it never makes more
\* than 5 attempts and never sleeps more than 5 + 10 + 20 + 40 = 75 seconds in
\* total.
C27_Terminates ==
    /\ (cpc # "idle") ~> (cpc \in {"returned", "raised"})
    /\ [](attempt <= 5 /\ Len(sleeps) <= 4 /\ SumSeq(sleeps) <= 75)

C27_Witness ==
    /\ cpc = "raised"
    /\ attempt = 5
    /\ SumSeq(sleeps) = 75

----------------------------------------------------------------------------
(* What build_image leaves alone *)

BeforePublish(p) ==
    \/ bpc[p] \in {"idle", "fetch", "build", "connect"}
    \/ bat[p] \in {"fetch", "build"}

\* C28: a call that failed at the fetch of the runner application or at the
\* external build has opened no connection and searched, deleted and created
\* nothing; a connection is opened only by a call whose fetch and build both
\* succeeded; while no call has gone past these two steps the catalog is as it
\* was.
C28_EarlyFailureLeavesCatalog ==
    /\ \A p \in Calls :
        bat[p] \in {"fetch", "build"} =>
            /\ bpc[p] = "failed"
            /\ NoCloudCall(p)
            /\ found[p] = {}
            /\ deleted[p] = {}
            /\ bresult[p] = 0
    /\ \A p \in Calls :
        nconn[p] > 0 =>
            /\ nfetch[p] = 1
            /\ nbuild[p] = 1
            /\ bat[p] \notin {"fetch", "build"}
    /\ (\A p \in Calls : BeforePublish(p)) => images = catalog0

C28_Witness ==
    /\ bat[1] = "build"
    /\ bat[2] = "fetch"
    /\ braw[2] = "OtherError"
    /\ bpc[1] = "failed"
    /\ bpc[2] = "failed"
    /\ Cardinality(JammyIds(catalog0)) = 2
    /\ images = catalog0

OtherImages(catalog) == {i \in catalog : i.name # "jammy"}

\* C29: whatever the calls do, failed or not, the images under another name
\* are the ones the catalog held before; a call deletes only images its search
\* for "jammy" returned, none of them under another name, every image that is
\* new in the catalog is named "jammy", and no instance is created or deleted.
C29_OnlyCanonicalName ==
    /\ OtherImages(images) = OtherImages(catalog0)
    /\ \A i \in images \ catalog0 : i.name = "jammy"
    /\ \A p \in Calls :
        /\ deleted[p] \subseteq found[p]
        /\ found[p] \cap {i.id : i \in OtherImages(catalog0)} = {}
    /\ servers = {}
    /\ requests = <<>>

C29_Witness ==
    /\ bpc[1] = "done"
    /\ bpc[2] = "failed"
    /\ bat[2] = "delete"
    /\ Cardinality(deleted[1]) = 2
    /\ OtherImages(images) = OtherImages(catalog0)
    /\ OtherImages(images) # {}

----------------------------------------------------------------------------
(* The replace has no rollback *)

NumJammy(catalog) == Cardinality(JammyIds(catalog))

\* with the calls made one after the other, no "jammy" image is in the catalog
\* when a call is about to issue its create request
EmptyAtCreate == \A p \in Calls : bpc[p] = "create" => JammyIds(images) = {}

\* what a failed call deleted stays deleted
NoRollback ==
    \A p \in Calls :
        (bpc[p] = "failed" /\ LatestCall(p)) =>
            deleted[p] \cap JammyIds(images) = {}

\* C30 as stated: with the calls made one after the other the catalog holds
\* no "jammy" image when a call issues its create request, what a failed call
\* deleted stays deleted, and the number of "jammy" images grows only by the
\* step that completes a successful call, never by a step of a call that fails.
C30_Original ==
    /\ []EmptyAtCreate
    /\ []NoRollback
    /\ [][NumJammy(images') > NumJammy(images) =>
            \E p \in Calls : bpc[p] = "create" /\ bpc'[p] = "done"]_vars

\* C30 amended: with the calls made one after the other the catalog holds no
\* "jammy" image when a call issues its create request and what a failed call
\* deleted stays deleted; the number of "jammy" images grows only by a create
\* request and by one, so a call that fails before its create request never
\* increases it, while a call whose create request raises may leave the image
\* of that request behind.
C30_NoRollback ==
    /\ []EmptyAtCreate
    /\ []NoRollback
    /\ [](\A p \in Calls :
            (bpc[p] = "failed" /\ bat[p] = "create" /\ LatestCall(p)) =>
                NumJammy(images) <= 1)
    /\ [][NumJammy(images') > NumJammy(images) =>
            /\ NumJammy(images') = NumJammy(images) + 1
            /\ \E p \in Calls :
                /\ bpc[p] = "create"
                /\ bpc'[p] \in {"done", "failed"}
                /\ ncreate'[p] = 1]_vars
    /\ [][\A p \in Calls :
            (bpc'[p] = "failed" /\ bpc[p] # "failed" /\ bpc[p] # "create") =>
                NumJammy(images') <= NumJammy(images)]_vars

C30_Witness ==
    /\ bpc[1] = "failed"
    /\ bat[1] = "create"
    /\ bpc[2] = "idle"
    /\ Cardinality(deleted[1]) = 2
    /\ deleted[1] = JammyIds(catalog0)
    /\ JammyIds(images) = {}

====
